---- MODULE Spec2Model ----
(***************************************************************************)
(* Model of the internship scraper: src/internship_scraper.py (the one-shot *)
(* script run by a workflow) and src/main.py (the long-lived scheduler      *)
(* revision of the same script).  Python strings are sequences of           *)
(* one-character strings; a code point outside ASCII is written "U+XXXX".   *)
(* Indices are 1-based and "not found" is 0 where Python gives -1.          *)
(***************************************************************************)
EXTENDS Integers, Sequences, FiniteSets, TLC

(* ------------------------------ bounds -------------------------------- *)
\* number of repositories of repos_to_check the model keeps
NumRepos == 2
\* number of runs (run() / daily_job() calls) a behaviour may hold
MaxRuns == 2

(* --------------------------- Python strings --------------------------- *)
\* the printable ASCII characters, code points 32..126 in order
Printable ==
    << " ", "!", "\"", "#", "$", "%", "&", "'", "(", ")", "*", "+", ",", "-",
       ".", "/", "0", "1", "2", "3", "4", "5", "6", "7", "8", "9", ":", ";",
       "<", "=", ">", "?", "@", "A", "B", "C", "D", "E", "F", "G", "H", "I",
       "J", "K", "L", "M", "N", "O", "P", "Q", "R", "S", "T", "U", "V", "W",
       "X", "Y", "Z", "[", "\\", "]", "^", "_", "U+0060", "a", "b", "c", "d", "e",
       "f", "g", "h", "i", "j", "k", "l", "m", "n", "o", "p", "q", "r", "s",
       "t", "u", "v", "w", "x", "y", "z", "{", "|", "}", "~" >>

\* chr() for a printable ASCII code point
chr(n) == Printable[n - 31]

\* ord(): the code point of a character
OrdTable ==
    [c \in {Printable[k] : k \in 1..Len(Printable)} |->
        31 + (CHOOSE k \in 1..Len(Printable) : Printable[k] = c)] @@ <<>>

ord(c) ==
    CASE c = "\t" -> 9
      [] c = "\n" -> 10
      [] c = "\r" -> 13
      [] c = "U+00A6" -> 166
      [] c = "U+00A8" -> 168
      [] c = "U+00F0" -> 240
      [] c = "U+00FF" -> 255
      [] c = "U+0178" -> 376
      [] c = "U+2021" -> 8225
      [] OTHER -> OrdTable[c]

\* str.lower() on one character
lower_char(c) ==
    IF c = "U+0178" THEN "U+00FF"
    ELSE IF ord(c) >= 65 /\ ord(c) <= 90 THEN chr(ord(c) + 32) ELSE c

\* str.lower()
lower(s) == [k \in 1..Len(s) |-> lower_char(s[k])]

\* str.find(sub, start): the lowest index >= start where sub occurs, else 0
find(s, sub, start) ==
    LET hits == {k \in start..(Len(s) - Len(sub) + 1) :
                    SubSeq(s, k, k + Len(sub) - 1) = sub}
    IN  IF hits = {} THEN 0 ELSE CHOOSE k \in hits : \A m \in hits : k <= m

\* the "in" operator on strings
contains(s, sub) == find(s, sub, 1) # 0

\* str.split(sep) for a one-character separator
RECURSIVE split(_, _)
split(s, sep) ==
    LET k == find(s, <<sep>>, 1)
    IN  IF k = 0 THEN <<s>>
        ELSE <<SubSeq(s, 1, k - 1)>> \o split(SubSeq(s, k + 1, Len(s)), sep)

IsSpace(c) == c \in {" ", "\t", "\n", "\r"}

\* str.strip()
strip(s) ==
    LET keep == {k \in 1..Len(s) : ~IsSpace(s[k])}
    IN  IF keep = {} THEN <<>>
        ELSE SubSeq(s, CHOOSE a \in keep : \A m \in keep : a <= m,
                       CHOOSE b \in keep : \A m \in keep : b >= m)

\* str.replace(ch, empty) for a one-character ch
remove(s, ch) == SelectSeq(s, LAMBDA c : c # ch)

\* any(x in s for x in words)
contains_any(s, words) == \E k \in 1..Len(words) : contains(s, words[k])

\* str(n) for n >= 0
RECURSIVE str(_)
str(n) == IF n < 10 THEN <<chr(48 + n)>> ELSE str(n \div 10) \o <<chr(48 + (n % 10))>>

\* the index at which a for loop with "if ...: break" stops, else 0:
\* the first index of flags that holds TRUE
first_index(flags) ==
    LET hits == {k \in 1..Len(flags) : flags[k]}
    IN  IF hits = {} THEN 0 ELSE CHOOSE k \in hits : \A m \in hits : k <= m

(* ------------------------------ literals ------------------------------ *)
Unknown == << "U", "n", "k", "n", "o", "w", "n" >>
http == << "h", "t", "t", "p" >>
canada == << "c", "a", "n", "a", "d", "a" >>
\* the flag literal as the source files hold it (eight code points)
flag ==
    << "U+00F0", "U+0178", "U+2021", "U+00A8", "U+00F0", "U+0178", "U+2021",
       "U+00A6" >>

company_rejects ==
    << << "a", "p", "p", "l", "y" >>,
       << "l", "i", "n", "k" >>,
       << "p", "o", "s", "t", "i", "n", "g" >> >>

role_keywords ==
    << << "i", "n", "t", "e", "r", "n" >>,
       << "e", "n", "g", "i", "n", "e", "e", "r" >>,
       << "d", "e", "v", "e", "l", "o", "p", "e", "r" >>,
       << "s", "o", "f", "t", "w", "a", "r", "e" >>,
       << "s", "w", "e" >>,
       << "c", "o", "-", "o", "p" >> >>

canadian_locations ==
    << << "t", "o", "r", "o", "n", "t", "o" >>,
       << "v", "a", "n", "c", "o", "u", "v", "e", "r" >>,
       << "m", "o", "n", "t", "r", "e", "a", "l" >>,
       << "o", "t", "t", "a", "w", "a" >>,
       << "c", "a", "l", "g", "a", "r", "y" >>,
       << "e", "d", "m", "o", "n", "t", "o", "n" >>,
       << "w", "i", "n", "n", "i", "p", "e", "g" >>,
       << "q", "u", "e", "b", "e", "c" >>,
       << "h", "a", "m", "i", "l", "t", "o", "n" >>,
       << "k", "i", "t", "c", "h", "e", "n", "e", "r" >>,
       << "w", "a", "t", "e", "r", "l", "o", "o" >>,
       << "l", "o", "n", "d", "o", "n" >>,
       << "v", "i", "c", "t", "o", "r", "i", "a" >>,
       << "h", "a", "l", "i", "f", "a", "x" >>,
       << "r", "e", "g", "i", "n", "a" >>,
       << "s", "a", "s", "k", "a", "t", "o", "o", "n" >>,
       << "o", "n", "t", "a", "r", "i", "o" >>,
       << "b", "c" >>,
       << "b", "r", "i", "t", "i", "s", "h", " ", "c", "o", "l", "u", "m", "b", "i",
       "a" >>,
       << "a", "l", "b", "e", "r", "t", "a" >>,
       << "q", "u", "e", "b", "e", "c" >>,
       << "r", "e", "m", "o", "t", "e" >>,
       << "h", "y", "b", "r", "i", "d" >>,
       << "c", "a", "n", "a", "d", "a" >> >>

months ==
    << << "J", "a", "n" >>,
       << "F", "e", "b" >>,
       << "M", "a", "r" >>,
       << "A", "p", "r" >>,
       << "M", "a", "y" >>,
       << "J", "u", "n" >>,
       << "J", "u", "l" >>,
       << "A", "u", "g" >>,
       << "S", "e", "p" >>,
       << "O", "c", "t" >>,
       << "N", "o", "v" >>,
       << "D", "e", "c" >> >>

(* --------------------------- field extraction ------------------------- *)
\* [p.strip() for p in line.split('|') if p.strip()]
table_parts(line) ==
    LET raw == split(line, "|")
        stripped == [k \in 1..Len(raw) |-> strip(raw[k])]
    IN  SelectSeq(stripped, LAMBDA p : p # <<>>)

\* part.split('[')[1].split(']')[0]
company_match(part) == split(split(part, "[")[2], "]")[1]

is_company_part(part) ==
    /\ contains(part, <<"[">>) /\ contains(part, <<"]">>) /\ contains(part, http)
    /\ company_match(part) # <<>>
    /\ ~contains_any(lower(company_match(part)), company_rejects)

\* part.replace("[", "").replace("]", "").split('(')[0].strip()
clean(part) == strip(split(remove(remove(part, "["), "]"), "(")[1])

is_role_part(part) == contains_any(lower(part), role_keywords)

is_location_part(part) ==
    /\ contains_any(lower(part), canadian_locations)
    /\ clean(part) # <<>>
    /\ Len(clean(part)) < 50

is_date_part(part) ==
    \/ contains_any(part, months)
    \/ contains(part, <<"/">>)
    \/ contains(part, <<"-">>)

extract_link(line) ==
    IF ~contains(line, http) THEN <<>>
    ELSE LET link_start == find(line, http, 1)
             paren == find(line, <<")">>, link_start)
             space == find(line, <<" ">>, link_start)
             link_end == IF paren # 0 THEN paren
                         ELSE IF space # 0 THEN space ELSE Len(line) + 1
         IN  strip(SubSeq(line, link_start, link_end - 1))

extract_job_info(line) ==
    LET parts == table_parts(line)
        c == first_index([k \in 1..Len(parts) |-> is_company_part(parts[k])])
        r == first_index([k \in 1..Len(parts) |-> is_role_part(parts[k])])
        l == first_index([k \in 1..Len(parts) |-> is_location_part(parts[k])])
        d == first_index([k \in 1..Len(parts) |-> is_date_part(parts[k])])
    IN  [company |-> IF c = 0 THEN Unknown ELSE company_match(parts[c]),
         role |-> IF r = 0 THEN Unknown ELSE clean(parts[r]),
         location |-> IF l = 0 THEN Unknown ELSE clean(parts[l]),
         date_posted |-> IF d = 0 THEN Unknown ELSE strip(parts[d]),
         link |-> extract_link(line)]

(* ------------------------------ documents ----------------------------- *)
DocAcme ==
    << "|", " ", "[", "A", "c", "m", "e", "]", "(", "h", "t", "t", "p", ":",
       "/", "/", "a", "c", "m", "e", ".", "c", "o", "m", "/", "a", "p", "p",
       "l", "y", ")", " ", "|", " ", "S", "W", "E", " ", "I", "n", "t", "e",
       "r", "n", " ", "|", " ", "T", "o", "r", "o", "n", "t", "o", ",", " ",
       "C", "a", "n", "a", "d", "a", " ", "|", " ", "J", "a", "n", " ", "5",
       " ", "|", "\n", "|", " ", "p", "r", "o", "s", "e", " ", "l", "i", "n",
       "e", " ", "u", "n", "r", "e", "l", "a", "t", "e", "d", " ", "|" >>

DocB ==
    << "C", "a", "n", "a", "d", "a", " ", "[", "b", "]", "\n", " ", "C", "a",
       "n", "a", "d", "a", " ", "[", "b", "]", "\n", "C", "a", "n", "a", "d",
       "a", " ", "[", "b", "]", "\n", "n", "o", " ", "[", "c", "]", "\n",
       "U+00F0", "U+0178", "U+2021", "U+00A8", "U+00F0", "U+0178", "U+2021",
       "U+00A6", " ", "h", "t", "t", "p", ":", "/", "/", "z" >>

DocPool == {DocAcme, DocB}

\* the READMEs of repos_to_check: the pool's documents in turn, from either
Readmes ==
    {[k \in 1..NumRepos |-> IF (k + r) % 2 = 1 THEN DocAcme ELSE DocB] : r \in {0, 1}}

\* a function as an explicit table: each value is computed once
table(f) == f @@ <<>>

\* every line of every document of the pool
PoolLines == UNION {{split(d, "\n")[k] : k \in 1..Len(split(d, "\n"))} : d \in DocPool}

(* ---------------------------- configuration --------------------------- *)
\* the two scripts of the repository
Scripts == {"internship_scraper", "main"}

\* self.repos_to_check, kept to NumRepos entries named repoA, repoB, ...
repos_to_check == [k \in 1..NumRepos |-> <<"r", "e", "p", "o", chr(64 + k)>>]


\* what the GitHub API does for one repository in one run
Network == {"commits_error", "no_commits", "readme_error", "ok"}

(* -------------------------------- state ------------------------------- *)
VARIABLES
    script,            \* which script is deployed
    docs,              \* docs[k]: the README text of repos_to_check[k]
    file,              \* cache_file on disk: [status, data]
    pc,                \* where the process is
    seed,              \* the string hash key of the running process
    keys,              \* how many distinct hash keys processes have drawn
    seen_postings,     \* self.seen_postings
    i,                 \* position of the for loop of scrape_all_repos
    all_new_postings,  \* all_new_postings of scrape_all_repos
    run,               \* runs started so far; also the reading of datetime.now()
    count,             \* the value run() returned last
    exit_code,         \* exit status of the last process (-1: none yet)
    fresh,             \* history: the current run is the first of its process
    fetched,           \* history: what Network did for each repository, this run
    saves,             \* history: save_cache calls of this run
    delivered,         \* history: "none", "sent" or "failed", this run
    reported,          \* history: every posting any run returned
    prev,              \* history: summary of the last finished run
    loaded             \* history: the keys of self.seen_postings when the run began

vars == <<script, docs, file, pc, seed, keys, seen_postings, i, all_new_postings,
          run, count, exit_code, fresh, fetched, saves, delivered, reported, prev,
          loaded>>

(* ------------------------------ the cache ----------------------------- *)
\* load_cache: the mapping read, or raised when json.load's error escapes
load_cache ==
    IF file.status = "missing" THEN [raised |-> FALSE, value |-> <<>>]
    ELSE IF file.status = "corrupt"
         THEN [raised |-> script = "main", value |-> <<>>]
    ELSE [raised |-> FALSE, value |-> file.data]

\* mutant of save_cache: only the entries of this run are written
save_cache_new_only(postings) ==
    [status |-> "ok",
     data |-> [id \in {x \in DOMAIN postings : postings[x] = run} |-> postings[id]]]

\* mutant of save_cache: nothing is written while postings await delivery
save_cache_after_delivery(postings) ==
    IF all_new_postings # <<>> THEN file ELSE [status |-> "ok", data |-> postings]

\* save_cache: json.dump of the whole mapping over the file
save_cache(postings) == [status |-> "ok", data |-> postings]

(* ------------------------------ fetching ------------------------------ *)
\* get_github_commits: response.json(), or [] from the except branch
get_github_commits(net) ==
    IF net = "commits_error" THEN <<>>
    ELSE IF net = "no_commits" THEN <<>> ELSE <<"sha">>

\* get_readme_content: response.text, or "" from the except branch
get_readme_content(net, k) == IF net = "readme_error" THEN <<>> ELSE docs[k]

(* ------------------------------- parsing ------------------------------ *)
\* hash(line): CPython's keyed string hash, here a polynomial hash keyed by
\* the per-process seed; hash("") is 0 whatever the key
RECURSIVE hash_from(_, _, _, _)
hash_from(h, s, a, b) ==
    IF a > b THEN h
    ELSE IF a = b THEN (h * 31 + ord(s[a])) % 65521
    ELSE LET mid == (a + b) \div 2
             left == hash_from(h, s, a, mid)
         IN  IF left < 0 THEN left ELSE hash_from(left, s, mid + 1, b)

\* hash() of the pool's lines under each key, computed once
HashTable ==
    table([key \in 0..(MaxRuns - 1) |-> table([s \in PoolLines |-> hash_from(key, s, 1, Len(s))])])

hash(s) == IF s = <<>> THEN 0 ELSE HashTable[seed][s]

\* f"{repo_name}_{hash(line)}"
posting_id(repo_name, line) == repo_name \o <<"_">> \o str(hash(line))

\* the condition of parse_internships on one line
is_candidate(line) ==
    /\ contains(lower(line), canada) \/ contains(line, flag)
    /\ contains(line, http) \/ contains(line, <<"[">>)

\* is_candidate, extract_job_info and strip on the pool's lines, computed once
CandidateTable == table([line \in PoolLines |-> is_candidate(line)])
JobInfoTable == table([line \in PoolLines |-> extract_job_info(line)])
StripTable == table([line \in PoolLines |-> strip(line)])
LinesTable == table([d \in DocPool |-> split(d, "\n")])

\* the dictionary appended to new_postings
posting(repo_name, line) ==
    IF script = "internship_scraper"
    THEN LET job_info == JobInfoTable[line]
         IN  [repo |-> repo_name,
              company |-> job_info.company,
              role |-> job_info.role,
              location |-> job_info.location,
              date_posted |-> job_info.date_posted,
              link |-> job_info.link,
              raw_content |-> StripTable[line],
              id |-> posting_id(repo_name, line),
              found_date |-> run]
    ELSE [repo |-> repo_name,
          content |-> StripTable[line],
          id |-> posting_id(repo_name, line),
          date |-> run]

\* mutant of parse_lines: no test of posting_id against self.seen_postings
RECURSIVE parse_lines_unchecked(_, _, _, _, _)
parse_lines_unchecked(lines, k, repo_name, new_postings, seen) ==
    IF k > Len(lines) THEN [new_postings |-> new_postings, seen_postings |-> seen]
    ELSE IF CandidateTable[lines[k]]
         THEN parse_lines_unchecked(lines, k + 1, repo_name,
                  Append(new_postings, posting(repo_name, lines[k])),
                  (posting_id(repo_name, lines[k]) :> run) @@ seen)
         ELSE parse_lines_unchecked(lines, k + 1, repo_name, new_postings, seen)

\* the for loop of parse_internships from line k on
RECURSIVE parse_lines(_, _, _, _, _)
parse_lines(lines, k, repo_name, new_postings, seen) ==
    IF k > Len(lines) THEN [new_postings |-> new_postings, seen_postings |-> seen]
    ELSE IF /\ CandidateTable[lines[k]]
            /\ posting_id(repo_name, lines[k]) \notin DOMAIN seen
         THEN parse_lines(lines, k + 1, repo_name,
                          Append(new_postings, posting(repo_name, lines[k])),
                          (posting_id(repo_name, lines[k]) :> run) @@ seen)
         ELSE parse_lines(lines, k + 1, repo_name, new_postings, seen)

parse_internships(content, repo_name) ==
    parse_lines(LinesTable[content], 1, repo_name, <<>>, seen_postings)

\* mutant of extend: the new postings go to the front
extend_front(postings, new_postings) == new_postings \o postings

\* all_new_postings.extend(new_postings)
extend(postings, new_postings) == postings \o new_postings

(* ------------------------------- actions ------------------------------ *)
NoRun == [found |-> 0, complete |-> FALSE, delivered |-> "none", seed |-> 0]

Init ==
    /\ script \in Scripts
    /\ docs \in Readmes
    /\ file \in {[status |-> "missing", data |-> <<>>],
                 [status |-> "corrupt", data |-> <<>>]}
    /\ pc = "down"
    /\ seed = 0
    /\ keys = 0
    /\ seen_postings = <<>>
    /\ i = 1
    /\ all_new_postings = <<>>
    /\ run = 0
    /\ count = 0
    /\ exit_code = -1
    /\ fresh = FALSE
    /\ fetched = <<>>
    /\ saves = 0
    /\ delivered = "none"
    /\ reported = {}
    /\ prev = NoRun
    /\ loaded = {}

\* main() up to and including InternshipScraper(): a new process draws its
\* hash key (one drawn before, or a new one) and loads the cache
Start ==
    /\ pc = "down"
    /\ run < MaxRuns
    /\ \E key \in 0..keys :
          /\ seed' = key
          /\ keys' = IF key = keys THEN keys + 1 ELSE keys
    /\ IF load_cache.raised
       THEN /\ pc' = "crashed"
            /\ exit_code' = 1
            /\ seen_postings' = <<>>
       ELSE /\ pc' = "constructed"
            /\ exit_code' = -1
            /\ seen_postings' = load_cache.value
    /\ UNCHANGED <<script, docs, file, i, all_new_postings, run, count, fresh,
                   fetched, saves, delivered, reported, prev,
                   loaded>>

\* entry of run() / daily_job() and of scrape_all_repos
BeginRun ==
    /\ pc \in {"constructed", "idle"}
    /\ run < MaxRuns
    /\ pc' = "scrape"
    /\ run' = run + 1
    /\ i' = 1
    /\ all_new_postings' = <<>>
    /\ fresh' = (pc = "constructed")
    /\ fetched' = <<>>
    /\ saves' = 0
    /\ delivered' = "none"
    /\ UNCHANGED <<script, docs, file, seed, keys, seen_postings, count,
                   exit_code, reported, prev>>
    /\ loaded' = DOMAIN seen_postings

\* what the history keeps of Network's answer
outcome(net) == IF net \in {"commits_error", "readme_error"} THEN "error" ELSE net

\* one iteration of the for loop of scrape_all_repos when Network does net
ScrapeStep(net) ==
    LET repo == repos_to_check[i]
        commits == get_github_commits(net)
        content == IF commits # <<>> THEN get_readme_content(net, i) ELSE <<>>
        parsed == IF content # <<>>
                  THEN parse_internships(content, repo)
                  ELSE [new_postings |-> <<>>, seen_postings |-> seen_postings]
    IN  /\ all_new_postings' = extend(all_new_postings, parsed.new_postings)
        /\ seen_postings' = parsed.seen_postings
        /\ reported' = reported \cup
               {[repo |-> repo, run |-> run, id |-> parsed.new_postings[k].id,
                 raw |-> IF script = "main" THEN parsed.new_postings[k].content
                         ELSE parsed.new_postings[k].raw_content] :
                   k \in 1..Len(parsed.new_postings)}
        /\ fetched' = Append(fetched, outcome(net))
        /\ i' = i + 1
        /\ UNCHANGED <<script, docs, file, pc, seed, keys, run, count, exit_code,
                       fresh, saves, delivered, prev,
                       loaded>>

\* mutant of ScrapeRepo: a fetch error escapes the loop and ends the run
ScrapeRepoAbortsOnError ==
    /\ pc = "scrape"
    /\ i <= Len(repos_to_check)
    /\ \E net \in Network :
          IF outcome(net) = "error"
          THEN /\ pc' = "returned"
               /\ fetched' = Append(fetched, "error")
               /\ UNCHANGED <<script, docs, file, seed, keys, seen_postings, i,
                              all_new_postings, run, count, exit_code, fresh,
                              saves, delivered, reported, prev,
                              loaded>>
          ELSE ScrapeStep(net)

ScrapeRepo ==
    /\ pc = "scrape"
    /\ i <= Len(repos_to_check)
    /\ \E net \in Network : ScrapeStep(net)

\* mutant of SaveCache: the save sits inside the loop, once per repository
SaveCacheInLoop ==
    /\ pc = "scrape"
    /\ i > 1
    /\ saves < i - 1
    /\ file' = save_cache(seen_postings)
    /\ saves' = saves + 1
    /\ pc' = IF i > Len(repos_to_check) /\ saves' = i - 1 THEN "scraped" ELSE pc
    /\ UNCHANGED <<script, docs, seed, keys, seen_postings, i, all_new_postings,
                   run, count, exit_code, fresh, fetched, delivered, reported, prev,
                   loaded>>

\* the end of scrape_all_repos: self.save_cache(), return all_new_postings
SaveCache ==
    /\ pc = "scrape"
    /\ i > Len(repos_to_check)
    /\ file' = save_cache(seen_postings)
    /\ saves' = saves + 1
    /\ pc' = "scraped"
    /\ UNCHANGED <<script, docs, seed, keys, seen_postings, i, all_new_postings,
                   run, count, exit_code, fresh, fetched, delivered, reported, prev,
                   loaded>>

\* send_email(new_postings): SMTP works, or it raises; internship_scraper.py
\* re-raises into the except of run(), which returns 0; main.py only prints
SendEmail ==
    /\ pc = "scraped"
    /\ all_new_postings # <<>>
    /\ \E smtp \in {"ok", "error"} :
          /\ delivered' = IF smtp = "ok" THEN "sent" ELSE "failed"
          /\ count' = IF script = "main" THEN count
                      ELSE IF smtp = "ok" THEN Len(all_new_postings) ELSE 0
    /\ pc' = "returned"
    /\ UNCHANGED <<script, docs, file, seed, keys, seen_postings, i,
                   all_new_postings, run, exit_code, fresh, fetched, saves,
                   reported, prev,
                   loaded>>

\* the else branch: no new postings, nothing is sent
NoNewPostings ==
    /\ pc = "scraped"
    /\ all_new_postings = <<>>
    /\ count' = IF script = "main" THEN count ELSE 0
    /\ pc' = "returned"
    /\ UNCHANGED <<script, docs, file, seed, keys, seen_postings, i,
                   all_new_postings, run, exit_code, fresh, fetched, saves,
                   delivered, reported, prev,
                   loaded>>

\* after run(): internship_scraper.py prints "completed successfully" and the
\* process ends with status 0; main.py goes back to its scheduling loop
Finish ==
    /\ pc = "returned"
    /\ pc' = IF script = "main" THEN "idle" ELSE "down"
    /\ exit_code' = IF script = "main" THEN exit_code ELSE 0
    /\ seen_postings' = IF script = "main" THEN seen_postings ELSE <<>>
    /\ prev' = [found |-> Len(all_new_postings),
                complete |-> \A k \in 1..Len(fetched) : fetched[k] = "ok",
                delivered |-> delivered,
                seed |-> seed]
    /\ UNCHANGED <<script, docs, file, seed, keys, i, all_new_postings, run,
                   count, fresh, fetched, saves, delivered, reported,
                   loaded>>

\* main.py only: Ctrl+C in the scheduling loop ends the process
Stop ==
    /\ script = "main"
    /\ pc = "idle"
    /\ pc' = "down"
    /\ exit_code' = 130
    /\ seen_postings' = <<>>
    /\ UNCHANGED <<script, docs, file, seed, keys, i, all_new_postings, run,
                   count, fresh, fetched, saves, delivered, reported, prev,
                   loaded>>

Next ==
    \/ Start
    \/ BeginRun
    \/ ScrapeRepo
    \/ SaveCache
    \/ SendEmail
    \/ NoNewPostings
    \/ Finish
    \/ Stop

Spec == Init /\ [][Next]_vars

(* ------------------------------- claims ------------------------------- *)
InRun == pc \in {"scrape", "scraped", "returned"}

\* every repository of this run was fetched and its README parsed
Complete == Len(fetched) = NumRepos /\ \A k \in 1..Len(fetched) : fetched[k] = "ok"

Ids(postings) == {postings[k].id : k \in 1..Len(postings)}

RepoIndex(repo_name) ==
    CHOOSE k \in 1..Len(repos_to_check) : repos_to_check[k] = repo_name

\* the first line of the posting's document that has the posting's id, else 0
LineIndex(p) ==
    LET lines == LinesTable[docs[RepoIndex(p.repo)]]
    IN  first_index([k \in 1..Len(lines) |-> posting_id(p.repo, lines[k]) = p.id])

\* C1: two runs in sequence over the same documents, the second loading the
\* seen-set the first saved: the first returns postings, the second none.
C1_DedupConvergence ==
    (/\ run = 2 /\ pc = "scraped" /\ fresh
     /\ prev.complete /\ Complete
     /\ \E k \in 1..NumRepos : \E n \in 1..Len(LinesTable[docs[k]]) :
            CandidateTable[LinesTable[docs[k]][n]])
    => (prev.found > 0 /\ all_new_postings = <<>>)

\* C2: the id of a posting is a function of (source, trimmed line): any two
\* postings ever returned, in one run or in different runs, that agree on
\* source and trimmed content have the same id.
C2_IdDeterminedByContent ==
    \A p \in reported : \A q \in reported :
        (p.repo = q.repo /\ p.raw = q.raw) => p.id = q.id

\* C3: the postings a run returns are in document order, and within one
\* document in line order.
C3_OrderPreserved ==
    InRun =>
        \A a \in 1..Len(all_new_postings) : \A b \in 1..Len(all_new_postings) :
            a < b =>
                LET p == all_new_postings[a]
                    q == all_new_postings[b]
                IN  /\ LineIndex(p) > 0
                    /\ LineIndex(q) > 0
                    /\ \/ RepoIndex(p.repo) < RepoIndex(q.repo)
                       \/ /\ p.repo = q.repo
                          /\ LineIndex(p) < LineIndex(q)

C3_Witness ==
    /\ pc = "scraped"
    /\ \E a \in 1..Len(all_new_postings) : \E b \in 1..Len(all_new_postings) :
          a < b /\ all_new_postings[a].repo = all_new_postings[b].repo
    /\ \E a \in 1..Len(all_new_postings) : \E b \in 1..Len(all_new_postings) :
          a < b /\ all_new_postings[a].repo # all_new_postings[b].repo

\* C4: a run saves the seen-set exactly once, and only after every
\* configured repository has been processed.
C4_SavedOnceAfterAll ==
    /\ saves <= 1
    /\ saves = 1 => Len(fetched) = NumRepos
    /\ pc = "scrape" => saves = 0
    /\ (run > 0 /\ pc # "scrape") => saves = 1

C4_Witness ==
    /\ pc = "returned"
    /\ saves = 1
    /\ Len(fetched) = NumRepos
    /\ all_new_postings # <<>>

\* C5: a fetch failure does not abort the run. The failing source yields no
\* posting, the loop still reaches every configured source, and every
\* candidate line of a source that was fetched is recorded and, when new in
\* this run, returned.
C5_FetchFailureTolerated ==
    InRun =>
        /\ pc # "scrape" => Len(fetched) = NumRepos
        /\ \A k \in 1..Len(fetched) :
              IF fetched[k] # "ok"
              THEN \A a \in 1..Len(all_new_postings) :
                       all_new_postings[a].repo # repos_to_check[k]
              ELSE \A n \in 1..Len(LinesTable[docs[k]]) :
                       LET line == LinesTable[docs[k]][n]
                           id == posting_id(repos_to_check[k], line)
                       IN  CandidateTable[line] =>
                               /\ id \in DOMAIN seen_postings
                               /\ seen_postings[id] = run =>
                                      id \in Ids(all_new_postings)

C5_Witness ==
    /\ pc = "returned"
    /\ fetched[1] = "error"
    /\ fetched[NumRepos] = "ok"
    /\ \E a \in 1..Len(all_new_postings) :
          all_new_postings[a].repo = repos_to_check[NumRepos]
    /\ Ids(all_new_postings) \subseteq DOMAIN file.data

\* C6: loading never fails the run: with the cache file missing or not
\* parseable the process is constructed with an empty seen-set.
C6_LoadNeverFails ==
    /\ pc # "crashed"
    /\ (pc = "constructed" /\ file.status # "ok") => seen_postings = <<>>

\* C7: a run that found postings and could not deliver them ends with a
\* failure status for whoever invoked it.
C7_DeliveryFailureReported ==
    (/\ pc \in {"idle", "down"} /\ run > 0
     /\ all_new_postings # <<>> /\ delivered = "failed")
    => exit_code > 0

\* the entries of a seen-set: (id, first-seen timestamp) pairs
Entries(f) == {<<id, f[id]>> : id \in DOMAIN f}

Known == Entries(seen_postings) \cup Entries(file.data)

\* C8: the seen-set only grows: no step removes an entry, in memory or on
\* disk, or changes its first-seen timestamp.
C8_SeenSetOnlyGrows == [][Known \subseteq Known']_vars

C8_Witness ==
    /\ pc = "scraped"
    /\ \E x \in DOMAIN file.data : file.data[x] = 1
    /\ \E x \in DOMAIN file.data : file.data[x] = 2

Acme == << "A", "c", "m", "e" >>
SWEIntern == << "S", "W", "E", " ", "I", "n", "t", "e", "r", "n" >>
Toronto == << "T", "o", "r", "o", "n", "t", "o" >>
Jan5 == << "J", "a", "n", " ", "5" >>
AcmeLink ==
    << "h", "t", "t", "p", ":", "/", "/", "a", "c", "m", "e", ".", "c", "o",
       "m", "/", "a", "p", "p", "l", "y" >>

\* C9: with the Acme document as repoA's README and an empty seen-set, the
\* run returns exactly one repoA posting: company Acme, role SWE Intern, a
\* location containing Toronto, date Jan 5 and the apply link.
C9_AcmeScenario ==
    (/\ script = "internship_scraper" /\ docs[1] = DocAcme
     /\ run = 1 /\ pc = "scraped" /\ fetched[1] = "ok")
    => LET found == SelectSeq(all_new_postings,
                              LAMBDA p : p.repo = repos_to_check[1])
       IN  /\ Len(found) = 1
           /\ found[1].company = Acme
           /\ found[1].role = SWEIntern
           /\ contains(found[1].location, Toronto)
           /\ found[1].date_posted = Jan5
           /\ found[1].link = AcmeLink

\* C10: what a run found is on disk once scrape_all_repos has returned,
\* whether or not delivery then succeeds, and no later run returns an id an
\* earlier run returned.
C10_RecordedDespiteDeliveryFailure ==
    /\ pc \in {"scraped", "returned"} =>
           Ids(all_new_postings) \subseteq DOMAIN file.data
    /\ InRun =>
           \A p \in reported : p.run < run => p.id \notin Ids(all_new_postings)

C10_Witness ==
    /\ run = 2 /\ pc = "returned" /\ fresh
    /\ prev.found > 0 /\ prev.delivered = "failed" /\ prev.complete
    /\ prev.seed = seed
    /\ Complete
    /\ all_new_postings = <<>>

\* C11: within a run the ids of the returned postings are exactly the keys
\* the run added to the seen-set, each once: none was a key when the run
\* began, no two returned postings share an id, and once the run has saved
\* every returned id is a key of the saved seen-set.
C11_ReturnedAreTheAddedKeys ==
    InRun =>
        /\ Ids(all_new_postings) \cap loaded = {}
        /\ \A a \in 1..Len(all_new_postings) : \A b \in 1..Len(all_new_postings) :
               a # b => all_new_postings[a].id # all_new_postings[b].id
        /\ Ids(all_new_postings) = DOMAIN seen_postings \ loaded
        /\ pc \in {"scraped", "returned"} =>
               Ids(all_new_postings) = DOMAIN file.data \ loaded

\* a run that began with keys loaded and returned the postings of a README
\* in which a candidate line occurs twice, fewer postings than candidate lines
C11_Witness ==
    /\ pc = "scraped"
    /\ loaded # {}
    /\ \E k \in 1..NumRepos :
          LET lines == LinesTable[docs[k]]
              found == {a \in 1..Len(all_new_postings) :
                          all_new_postings[a].repo = repos_to_check[k]}
          IN  /\ fetched[k] = "ok"
              /\ \E m \in 1..Len(lines) : \E n \in 1..Len(lines) :
                     m < n /\ CandidateTable[lines[m]] /\ lines[m] = lines[n]
              /\ found # {}
              /\ Cardinality(found) <
                     Cardinality({n \in 1..Len(lines) : CandidateTable[lines[n]]})

====
